---- MODULE Spec2Model ----
(***************************************************************************)
(* File-backed CRUD record store of src/main.py (items) and src/main2.py   *)
(* (products).  The two services run the same store code on their own data *)
(* file; the model is of one service process.                              *)
(*                                                                         *)
(* Every request runs on its own worker thread.  A step of the model is    *)
(* one access to shared state: the LOCK, os.path.exists, open(.., "w")     *)
(* (which truncates), the close of a written file (which flushes the       *)
(* buffered document at offset 0), open(.., "r") + json.load.              *)
(***************************************************************************)
EXTENDS Integers, Sequences, FiniteSets, TLC

\* ---------------------------------------------------------------- bounds
NumReq == 3          \* requests handled by the process in one run
MaxId == 2           \* identifiers a client may name in get/update/delete
NumHttp == 1         \* requests followed through the middleware stack
NumLive == 2         \* requests in a run checked for completion

Reqs == 1..NumReq
NoReq == 0

\* ------------------------------------------------------------- input data
\* ItemIn / ProductIn bodies a client may send (name, price, tags)
FA == [name |-> "A", price |-> 1, tags |-> <<>>]
FB == [name |-> "B", price |-> 2, tags |-> <<"x">>]
Fields == {FA, FB}
NoFields == [name |-> "", price |-> 0, tags |-> <<>>]

Mutating == {"create", "update", "delete"}

\* ---------------------------------------------------------- pure helpers
\* {"items": [], "next_id": 1}: the document _ensure_db writes
EmptyDb == [items |-> <<>>, next_id |-> 1]
\* placeholder for "no document loaded"
NoDb == [items |-> <<>>, next_id |-> 0]

\* {"id": new_id, **item.dict()}
Rec(id, f) == [id |-> id, name |-> f.name, price |-> f.price, tags |-> f.tags]

\* for i, it in enumerate(db["items"]): if it["id"] == item_id -> first match
\* (1-based; 0 when the loop falls through)
IndexOf(items, id) ==
  IF \E i \in 1..Len(items) : items[i].id = id
  THEN CHOOSE i \in 1..Len(items) :
         /\ items[i].id = id
         /\ \A j \in 1..(i - 1) : items[j].id # id
  ELSE 0

\* Pop as it would be with db["items"].pop(): the last record is removed
PopLast(items, i) == SubSeq(items, 1, Len(items) - 1)

\* db["items"].pop(i)
Pop(items, i) == [j \in 1..(Len(items) - 1) |-> IF j < i THEN items[j] ELSE items[j + 1]]

\* NewId as it would be with the identifier taken from the record count
NewIdFromCount(d) == Len(d.items) + 1

\* create: new_id = db["next_id"]; append rec; db["next_id"] = new_id + 1
NewId(d) == d.next_id
CreateDb(d, f) ==
  [items |-> Append(d.items, Rec(NewId(d), f)), next_id |-> NewId(d) + 1]

\* UpdateDb as it would be if the record were removed and appended again
UpdateDbMove(d, i, id, f) == [d EXCEPT !.items = Append(Pop(d.items, i), Rec(id, f))]

\* update: db["items"][i] = {"id": item_id, **item.dict()}
UpdateDb(d, i, id, f) == [d EXCEPT !.items[i] = Rec(id, f)]

\* delete: db["items"].pop(i)
DeleteDb(d, i) == [d EXCEPT !.items = Pop(d.items, i)]

\* ------------------------------------------------- the data file on disk
\* Length of the JSON document json.dump produces, in abstract units: it
\* only decides whether a flush at offset 0 covers what is already there.
Digits(n) == IF n < 10 THEN 1 ELSE 2
RecSize(r) == 4 + Digits(r.id) + Len(r.tags)
RECURSIVE ItemsSize(_)
ItemsSize(items) ==
  IF items = <<>> THEN 0 ELSE RecSize(Head(items)) + ItemsSize(Tail(items))
DocSize(d) == 3 + ItemsSize(d.items) + Digits(d.next_id)

\* exists: os.path.exists(DATA_FILE); valid: json.load would succeed;
\* data: the document json.load returns; size: length of the file
NoFile == [exists |-> FALSE, valid |-> FALSE, data |-> NoDb, size |-> 0]
FileOf(d) == [exists |-> TRUE, valid |-> TRUE, data |-> d, size |-> DocSize(d)]

\* open(DATA_FILE, "w"): creates the file or truncates it to length 0
Truncated == [exists |-> TRUE, valid |-> FALSE, data |-> NoDb, size |-> 0]

\* close of a file opened with "w": the buffered document d is written at
\* offset 0.  Bytes that another handle wrote beyond its end stay in place
\* and make the file unparseable.
Flush(f, d) ==
  IF DocSize(d) >= f.size
  THEN FileOf(d)
  ELSE [exists |-> TRUE, valid |-> FALSE, data |-> NoDb, size |-> f.size]

\* ---------------------------------------------------------- HTTP results
NoRes == [status |-> 0, body |-> <<>>]
Ok(code, recs) == [status |-> code, body |-> recs]
NotFound == [status |-> 404, body |-> <<>>]
\* json.JSONDecodeError escaping the handler: 500 Internal Server Error
ServerError == [status |-> 500, body |-> <<>>]

NoOp == [kind |-> "none", id |-> 0, fields |-> NoFields]

\* ------------------------------------------------------------------ state
VARIABLES
  file,     \* DATA_FILE on disk
  LOCK,     \* request holding threading.Lock(), or NoReq
  pc,       \* position of each request in its handler
  op,       \* the operation of each request and its arguments
  db,       \* the handler's local variable db
  res,      \* the response of each request
  started,  \* number of requests received so far
  \* history, read by the properties only
  c0,       \* next_id of the data file when the process started (0: no file)
  issued,   \* identifiers returned by create, in order of return
  ens,      \* what the _ensure_db of each request did
  hwm,      \* highest next_id a complete data file has held
  last,     \* per identifier: the last completed create/update/delete of it
  deleted,  \* identifiers whose delete has succeeded
  expect,   \* per get request: last[id] when it was received
  delAt,    \* per request: deleted when it was received
  serial,   \* the collection after the answered mutations, applied in lock order
  present,  \* per request: the data file existed when it was received
  quiet,    \* per request: no mutation in flight when or since it was received
  \* the middleware stack of src/main.py
  API_KEY,  \* os.getenv("API_KEY", "lab2-simple")
  http      \* per HTTP request: where it is in the stack, and its response

hist == <<c0, issued, ens, hwm, last, deleted, expect, delAt, serial, present, quiet>>
mw == <<API_KEY, http>>
vars == <<file, LOCK, pc, op, db, res, started, hist, mw>>

\* a data file left by an earlier run: one record, counter 2
DbOne == [items |-> <<Rec(1, FA)>>, next_id |-> 2]

NoLast == [src |-> "none", fields |-> NoFields]
Max(a, b) == IF a >= b THEN a ELSE b

\* an update or delete of identifier i is being handled
InFlightMutation(i) ==
  \E q \in Reqs : /\ pc[q] \notin {"idle", "done"}
                  /\ op[q].kind \in {"update", "delete"}
                  /\ op[q].id = i

\* a create, update or delete is being handled
MutationRunning ==
  \E q \in Reqs : pc[q] \notin {"idle", "done"} /\ op[q].kind \in Mutating

\* one operation applied to the collection d on its own
SerialApply(d, o) ==
  LET i == IndexOf(d.items, o.id) IN
    IF o.kind = "create" THEN CreateDb(d, o.fields)
    ELSE IF o.kind = "update" /\ i # 0 THEN UpdateDb(d, i, o.id, o.fields)
    ELSE IF o.kind = "delete" /\ i # 0 THEN DeleteDb(d, i)
    ELSE d

\* the secret when the environment does not set API_KEY
DefaultKey == "lab2-simple"
HttpReqs == 1..NumHttp
NoHttp == [stage |-> "idle", method |-> "", path |-> <<>>, key |-> "",
           status |-> 0, timed |-> FALSE, cors |-> FALSE, reached |-> FALSE,
           exc |-> FALSE]

\* the store before the first request, with data file f
StoreInit(f) ==
  /\ file = f
  /\ c0 = f.data.next_id
  /\ hwm = f.data.next_id
  /\ serial = IF f.exists THEN f.data ELSE EmptyDb
  /\ present = [r \in Reqs |-> FALSE]
  /\ quiet = [r \in Reqs |-> FALSE]
  /\ LOCK = NoReq
  /\ pc = [r \in Reqs |-> "idle"]
  /\ op = [r \in Reqs |-> NoOp]
  /\ db = [r \in Reqs |-> NoDb]
  /\ res = [r \in Reqs |-> NoRes]
  /\ started = 0
  /\ issued = <<>>
  /\ ens = [r \in Reqs |-> "no"]
  /\ last = [i \in 1..MaxId |-> NoLast]
  /\ deleted = {}
  /\ expect = [r \in Reqs |-> NoLast]
  /\ delAt = [r \in Reqs |-> {}]

Init ==
  /\ \E f \in {NoFile, FileOf(DbOne)} : StoreInit(f)
  /\ API_KEY = DefaultKey
  /\ http = [h \in HttpReqs |-> NoHttp]

\* the file after a flush, and the history of its counter
Written(f) ==
  /\ file' = f
  /\ hwm' = IF f.valid THEN Max(hwm, f.data.next_id) ELSE hwm

\* ---------------------------------------------------------------- actions
\* A request arrives and is dispatched to its route handler.  Handlers of
\* mutating routes first enter "with LOCK:", the others call load_db at once.
Receive(r, k, id, f) ==
  /\ pc[r] = "idle"
  /\ r = started + 1
  /\ started' = started + 1
  /\ op' = [op EXCEPT ![r] = [kind |-> k, id |-> id, fields |-> f]]
  /\ pc' = [pc EXCEPT ![r] = IF k \in Mutating THEN "lock" ELSE "ensure"]
  /\ expect' = [q \in Reqs |->
                  IF q = r
                  THEN IF k = "get" /\ ~InFlightMutation(id) THEN last[id] ELSE NoLast
                  ELSE IF /\ k \in {"update", "delete"}
                          /\ op[q].kind = "get" /\ op[q].id = id
                       THEN NoLast
                       ELSE expect[q]]
  /\ delAt' = [delAt EXCEPT ![r] = deleted]
  /\ present' = [present EXCEPT ![r] = file.exists]
  /\ quiet' = [q \in Reqs |->
                 IF k \in Mutating THEN FALSE
                 ELSE IF q = r THEN k = "list" /\ ~MutationRunning
                 ELSE quiet[q]]
  /\ UNCHANGED <<file, LOCK, db, res, c0, issued, ens, hwm, last, deleted, serial, mw>>

\* acquire_LOCK as it would be if the handler did not wait for the lock
acquire_LOCK_NoWait(r) ==
  /\ pc[r] = "lock"
  /\ LOCK' = r
  /\ pc' = [pc EXCEPT ![r] = "ensure"]
  /\ UNCHANGED <<file, op, db, res, started, hist, mw>>

\* with LOCK: (__enter__) -- blocks until the lock is free
acquire_LOCK(r) ==
  /\ pc[r] = "lock"
  /\ LOCK = NoReq
  /\ LOCK' = r
  /\ pc' = [pc EXCEPT ![r] = "ensure"]
  /\ UNCHANGED <<file, op, db, res, started, hist, mw>>

\* ensure_db_exists as it would be without the os.path.exists test
ensure_db_always(r) ==
  /\ pc[r] = "ensure"
  /\ pc' = [pc EXCEPT ![r] = "ens_open"]
  /\ UNCHANGED <<file, LOCK, op, db, res, started, hist, mw>>

\* _ensure_db: if not os.path.exists(DATA_FILE)
ensure_db_exists(r) ==
  /\ pc[r] = "ensure"
  /\ pc' = [pc EXCEPT ![r] = IF file.exists THEN "load" ELSE "ens_open"]
  /\ UNCHANGED <<file, LOCK, op, db, res, started, hist, mw>>

\* _ensure_db: open(DATA_FILE, "w")
ensure_db_open(r) ==
  /\ pc[r] = "ens_open"
  /\ ens' = [ens EXCEPT ![r] = IF file.exists THEN "overwrote" ELSE "created"]
  /\ file' = Truncated
  /\ pc' = [pc EXCEPT ![r] = "ens_close"]
  /\ UNCHANGED <<LOCK, op, db, res, started,
                 c0, issued, hwm, last, deleted, expect, delAt,
                 serial, present, quiet, mw>>

\* _ensure_db: json.dump({"items": [], "next_id": 1}, f) and the close of f
ensure_db_close(r) ==
  /\ pc[r] = "ens_close"
  /\ Written(Flush(file, EmptyDb))
  /\ pc' = [pc EXCEPT ![r] = "load"]
  /\ UNCHANGED <<LOCK, op, db, res, started,
                 c0, issued, ens, last, deleted, expect, delAt,
                 serial, present, quiet, mw>>

\* load_db in a mutating handler: open(DATA_FILE, "r") and json.load(f).  A
\* file that does not hold one complete document raises
\* json.JSONDecodeError, which leaves the handler through "with LOCK:".
load_db(r) ==
  /\ pc[r] = "load"
  /\ op[r].kind \in Mutating
  /\ IF file.valid
     THEN /\ db' = [db EXCEPT ![r] = file.data]
          /\ pc' = [pc EXCEPT ![r] = "handle"]
          /\ res' = res
     ELSE /\ db' = db
          /\ res' = [res EXCEPT ![r] = ServerError]
          /\ pc' = [pc EXCEPT ![r] = "release"]
  /\ UNCHANGED <<file, LOCK, op, started, hist, mw>>

\* list_items / list_products: db = load_db(); return db["items"]
ListResult(f) == IF f.valid THEN Ok(200, f.data.items) ELSE ServerError

list_items(r) ==
  /\ pc[r] = "load"
  /\ op[r].kind = "list"
  /\ res' = [res EXCEPT ![r] = ListResult(file)]
  /\ pc' = [pc EXCEPT ![r] = "done"]
  /\ UNCHANGED <<file, LOCK, op, db, started, hist, mw>>

\* get_item / get_product: db = load_db(); the loop; the 404
GetResult(f, id) ==
  IF ~f.valid THEN ServerError
  ELSE IF IndexOf(f.data.items, id) # 0
       THEN Ok(200, <<f.data.items[IndexOf(f.data.items, id)]>>)
       ELSE NotFound

get_item(r) ==
  /\ pc[r] = "load"
  /\ op[r].kind = "get"
  /\ res' = [res EXCEPT ![r] = GetResult(file, op[r].id)]
  /\ pc' = [pc EXCEPT ![r] = "done"]
  /\ UNCHANGED <<file, LOCK, op, db, started, hist, mw>>

\* create_item / create_product up to the open(DATA_FILE, "w") of save_db
create_item(r) ==
  /\ pc[r] = "handle"
  /\ op[r].kind = "create"
  /\ db' = [db EXCEPT ![r] = CreateDb(db[r], op[r].fields)]
  /\ res' = [res EXCEPT ![r] = Ok(201, <<Rec(NewId(db[r]), op[r].fields)>>)]
  /\ file' = Truncated
  /\ pc' = [pc EXCEPT ![r] = "save_close"]
  /\ UNCHANGED <<LOCK, op, started, hist, mw>>

\* update_item / update_product up to the open(DATA_FILE, "w") of save_db,
\* or to the end of the loop when no record matches
update_item(r) ==
  /\ pc[r] = "handle"
  /\ op[r].kind = "update"
  /\ LET i == IndexOf(db[r].items, op[r].id) IN
       IF i # 0
       THEN /\ db' = [db EXCEPT ![r] = UpdateDb(db[r], i, op[r].id, op[r].fields)]
            /\ res' = [res EXCEPT ![r] = Ok(200, <<Rec(op[r].id, op[r].fields)>>)]
            /\ file' = Truncated
            /\ pc' = [pc EXCEPT ![r] = "save_close"]
       ELSE /\ res' = [res EXCEPT ![r] = NotFound]
            /\ pc' = [pc EXCEPT ![r] = "release"]
            /\ UNCHANGED <<db, file>>
  /\ UNCHANGED <<LOCK, op, started, hist, mw>>

\* delete_item / delete_product, likewise
delete_item(r) ==
  /\ pc[r] = "handle"
  /\ op[r].kind = "delete"
  /\ LET i == IndexOf(db[r].items, op[r].id) IN
       IF i # 0
       THEN /\ db' = [db EXCEPT ![r] = DeleteDb(db[r], i)]
            /\ res' = [res EXCEPT ![r] = Ok(204, <<>>)]
            /\ file' = Truncated
            /\ pc' = [pc EXCEPT ![r] = "save_close"]
       ELSE /\ res' = [res EXCEPT ![r] = NotFound]
            /\ pc' = [pc EXCEPT ![r] = "release"]
            /\ UNCHANGED <<db, file>>
  /\ UNCHANGED <<LOCK, op, started, hist, mw>>

\* save_db: json.dump(db, f) and the close of f
save_db_close(r) ==
  /\ pc[r] = "save_close"
  /\ Written(Flush(file, db[r]))
  /\ pc' = [pc EXCEPT ![r] = "release"]
  /\ UNCHANGED <<LOCK, op, db, res, started,
                 c0, issued, ens, last, deleted, expect, delAt,
                 serial, present, quiet, mw>>

\* release_LOCK as it would be with LOCK.acquire() and LOCK.release() around
\* the body and the 404 raised before the release
release_LOCK_NotOnRaise(r) ==
  /\ pc[r] = "release"
  /\ LOCK' = IF res[r].status = 404 THEN LOCK ELSE NoReq
  /\ pc' = [pc EXCEPT ![r] = "done"]
  /\ db' = [db EXCEPT ![r] = NoDb]
  /\ LET k == op[r].kind
         ok == res[r].status \in {200, 201, 204}
         id == IF k = "create" /\ ok THEN res[r].body[1].id ELSE op[r].id
     IN /\ issued' = IF k = "create" /\ ok THEN Append(issued, id) ELSE issued
        /\ deleted' = IF k = "delete" /\ ok THEN deleted \cup {id} ELSE deleted
        /\ last' = IF ok /\ id \in DOMAIN last
                   THEN [last EXCEPT ![id] =
                           IF k = "delete" THEN [src |-> "delete", fields |-> NoFields]
                           ELSE [src |-> k, fields |-> op[r].fields]]
                   ELSE last
  /\ serial' = IF res[r] = ServerError THEN serial ELSE SerialApply(serial, op[r])
  /\ UNCHANGED <<file, op, res, started, c0, ens, hwm, expect, delAt,
                 present, quiet, mw>>

\* the end of "with LOCK:" (__exit__), then the return or the raise; the
\* local db goes out of scope
release_LOCK(r) ==
  /\ pc[r] = "release"
  /\ LOCK' = NoReq
  /\ pc' = [pc EXCEPT ![r] = "done"]
  /\ db' = [db EXCEPT ![r] = NoDb]
  /\ LET k == op[r].kind
         ok == res[r].status \in {200, 201, 204}
         id == IF k = "create" /\ ok THEN res[r].body[1].id ELSE op[r].id
     IN /\ issued' = IF k = "create" /\ ok THEN Append(issued, id) ELSE issued
        /\ deleted' = IF k = "delete" /\ ok THEN deleted \cup {id} ELSE deleted
        /\ last' = IF ok /\ id \in DOMAIN last
                   THEN [last EXCEPT ![id] =
                           IF k = "delete" THEN [src |-> "delete", fields |-> NoFields]
                           ELSE [src |-> k, fields |-> op[r].fields]]
                   ELSE last
  /\ serial' = IF res[r] = ServerError THEN serial ELSE SerialApply(serial, op[r])
  /\ UNCHANGED <<file, op, res, started, c0, ens, hwm, expect, delAt,
                 present, quiet, mw>>

Next ==
  \/ \E r \in Reqs : Receive(r, "list", 0, NoFields)
  \/ \E r \in Reqs, id \in 1..MaxId : Receive(r, "get", id, NoFields)
  \/ \E r \in Reqs, f \in Fields : Receive(r, "create", 0, f)
  \/ \E r \in Reqs, id \in 1..MaxId, f \in Fields : Receive(r, "update", id, f)
  \/ \E r \in Reqs, id \in 1..MaxId : Receive(r, "delete", id, NoFields)
  \/ \E r \in Reqs : acquire_LOCK(r)
  \/ \E r \in Reqs : ensure_db_exists(r)
  \/ \E r \in Reqs : ensure_db_open(r)
  \/ \E r \in Reqs : ensure_db_close(r)
  \/ \E r \in Reqs : load_db(r)
  \/ \E r \in Reqs : list_items(r)
  \/ \E r \in Reqs : get_item(r)
  \/ \E r \in Reqs : create_item(r)
  \/ \E r \in Reqs : update_item(r)
  \/ \E r \in Reqs : delete_item(r)
  \/ \E r \in Reqs : save_db_close(r)
  \/ \E r \in Reqs : release_LOCK(r)

Spec == Init /\ [][Next]_vars

\* the steps of request r after it was received, the wait for LOCK apart
Proceed(r) ==
  \/ ensure_db_exists(r) \/ ensure_db_open(r) \/ ensure_db_close(r)
  \/ load_db(r) \/ list_items(r) \/ get_item(r)
  \/ create_item(r) \/ update_item(r) \/ delete_item(r)
  \/ save_db_close(r) \/ release_LOCK(r)

\* The same handlers with NumLive requests in the run: the thread pool runs
\* every worker thread again and again, and a thread blocked in
\* LOCK.acquire() gets the free LOCK when no other thread contends for it.
LiveReqs == 1..NumLive

LiveNext ==
  \/ \E r \in LiveReqs : Receive(r, "list", 0, NoFields)
  \/ \E r \in LiveReqs, id \in 1..MaxId : Receive(r, "get", id, NoFields)
  \/ \E r \in LiveReqs, f \in Fields : Receive(r, "create", 0, f)
  \/ \E r \in LiveReqs, id \in 1..MaxId, f \in Fields : Receive(r, "update", id, f)
  \/ \E r \in LiveReqs, id \in 1..MaxId : Receive(r, "delete", id, NoFields)
  \/ \E r \in LiveReqs : acquire_LOCK(r)
  \/ \E r \in LiveReqs : ensure_db_exists(r)
  \/ \E r \in LiveReqs : ensure_db_open(r)
  \/ \E r \in LiveReqs : ensure_db_close(r)
  \/ \E r \in LiveReqs : load_db(r)
  \/ \E r \in LiveReqs : list_items(r)
  \/ \E r \in LiveReqs : get_item(r)
  \/ \E r \in LiveReqs : create_item(r)
  \/ \E r \in LiveReqs : update_item(r)
  \/ \E r \in LiveReqs : delete_item(r)
  \/ \E r \in LiveReqs : save_db_close(r)
  \/ \E r \in LiveReqs : release_LOCK(r)

FairSpec ==
  /\ Init /\ [][LiveNext]_vars
  /\ \A r \in LiveReqs : WF_vars(Proceed(r)) /\ WF_vars(acquire_LOCK(r))

\* ------------------------------------------- the middleware stack (main.py)
\* Paths as sequences of tokens, so that startswith can be computed
PHealth == <<"/", "health">>
PSecret == <<"/", "admin", "/", "secret">>
PAdminOther == <<"/", "admin", "/", "other">>
PAdminSlash == <<"/", "admin", "/">>
PAdminBare == <<"/", "admin">>
PAdministrator == <<"/", "admin", "istrator">>
PItems == <<"/", "items">>
PItemOne == <<"/", "items", "/", "1">>
Paths == {PHealth, PSecret, PAdminOther, PAdminSlash, PAdminBare,
          PAdministrator, PItems, PItemOne}
\* what a client may send
Targets == {<<"GET", p>> : p \in Paths} \cup {<<"POST", PItems>>}
\* values of the X-API-Key header; NoHeader: the header is missing
NoHeader == "(none)"
Headers == {NoHeader, DefaultKey, "other"}
\* values the environment may give API_KEY
Keys == {DefaultKey, "other"}

\* str.startswith
StartsWith(p, prefix) ==
  Len(p) >= Len(prefix) /\ SubSeq(p, 1, Len(prefix)) = prefix

\* admin_guard as it would be if it compared the path with /admin/secret
GuardedExact(p) == p = PSecret

\* admin_guard: request.url.path.startswith("/admin/")
Guarded(p) == StartsWith(p, <<"/", "admin", "/">>)

\* admin_guard: provided != API_KEY (a missing header is None)
Refused(h) == Guarded(h.path) /\ (h.key = NoHeader \/ h.key # API_KEY)

\* The outcomes of the router for a request: <<status, a route handler ran,
\* an exception left the handler>>.  No route: 404; a body that fails
\* validation: 422 before the handler; load_db raising: the exception.
Routed(method, p) ==
  IF method = "GET" /\ p \in {PHealth, PSecret} THEN {<<200, TRUE, FALSE>>}
  ELSE IF method = "GET" /\ p = PItems
       THEN {<<200, TRUE, FALSE>>, <<500, TRUE, TRUE>>}
  ELSE IF method = "GET" /\ p = PItemOne
       THEN {<<200, TRUE, FALSE>>, <<404, TRUE, FALSE>>, <<500, TRUE, TRUE>>}
  ELSE IF method = "POST" /\ p = PItems
       THEN {<<201, TRUE, FALSE>>, <<422, FALSE, FALSE>>, <<500, TRUE, TRUE>>}
  ELSE {<<404, FALSE, FALSE>>}

\* A request enters the stack.  add_middleware and @app.middleware insert at
\* the front, so the middleware registered last is the outermost:
\* admin_guard, then timing_header, then CORSMiddleware, then the router.
http_request(h, method, p, key) ==
  /\ http[h].stage = "idle"
  /\ \A g \in HttpReqs : g < h => http[g].stage # "idle"
  /\ http' = [http EXCEPT ![h] = [NoHttp EXCEPT !.stage = "admin_guard",
                                   !.method = method, !.path = p, !.key = key]]
  /\ UNCHANGED <<file, LOCK, pc, op, db, res, started, hist, API_KEY>>

\* admin_guard: the 401 is returned without call_next
admin_guard(h) ==
  /\ http[h].stage = "admin_guard"
  /\ http' = [http EXCEPT ![h] =
                IF Refused(http[h])
                THEN [@ EXCEPT !.status = 401, !.stage = "sent"]
                ELSE [@ EXCEPT !.stage = "timing_header"]]
  /\ UNCHANGED <<file, LOCK, pc, op, db, res, started, hist, API_KEY>>

\* timing_header: start = time.perf_counter(); await call_next(request)
timing_header(h) ==
  /\ http[h].stage = "timing_header"
  /\ http' = [http EXCEPT ![h].stage = "cors"]
  /\ UNCHANGED <<file, LOCK, pc, op, db, res, started, hist, API_KEY>>

\* CORSMiddleware passes the request on
cors(h) ==
  /\ http[h].stage = "cors"
  /\ http' = [http EXCEPT ![h].stage = "route"]
  /\ UNCHANGED <<file, LOCK, pc, op, db, res, started, hist, API_KEY>>

\* the router, the route handler and the exception handlers for
\* HTTPException and RequestValidationError
route(h) ==
  /\ http[h].stage = "route"
  /\ \E o \in Routed(http[h].method, http[h].path) :
       http' = [http EXCEPT ![h] = [@ EXCEPT !.status = o[1], !.reached = o[2],
                                      !.exc = o[3], !.stage = "cors_out"]]
  /\ UNCHANGED <<file, LOCK, pc, op, db, res, started, hist, API_KEY>>

\* CORSMiddleware adds its headers to the response (allow_origins=["*"])
cors_out(h) ==
  /\ http[h].stage = "cors_out"
  /\ http' = [http EXCEPT ![h] = [@ EXCEPT !.cors = ~http[h].exc,
                                      !.stage = "timing_out"]]
  /\ UNCHANGED <<file, LOCK, pc, op, db, res, started, hist, API_KEY>>

\* timing_header after call_next: response.headers["X-Process-Time"] = ...;
\* an exception raised by call_next skips the assignment
timing_out(h) ==
  /\ http[h].stage = "timing_out"
  /\ http' = [http EXCEPT ![h] = [@ EXCEPT !.timed = ~http[h].exc,
                                      !.stage = "guard_out"]]
  /\ UNCHANGED <<file, LOCK, pc, op, db, res, started, hist, API_KEY>>

\* admin_guard: return await call_next(request)
guard_out(h) ==
  /\ http[h].stage = "guard_out"
  /\ http' = [http EXCEPT ![h].stage = "sent"]
  /\ UNCHANGED <<file, LOCK, pc, op, db, res, started, hist, API_KEY>>

HttpInit ==
  /\ StoreInit(NoFile)
  /\ API_KEY \in Keys
  /\ http = [h \in HttpReqs |-> NoHttp]

HttpNext ==
  \/ \E h \in HttpReqs, t \in Targets, key \in Headers :
       http_request(h, t[1], t[2], key)
  \/ \E h \in HttpReqs : admin_guard(h)
  \/ \E h \in HttpReqs : timing_header(h)
  \/ \E h \in HttpReqs : cors(h)
  \/ \E h \in HttpReqs : route(h)
  \/ \E h \in HttpReqs : cors_out(h)
  \/ \E h \in HttpReqs : timing_out(h)
  \/ \E h \in HttpReqs : guard_out(h)

SpecHttp == HttpInit /\ [][HttpNext]_vars

TypeOK ==
  /\ LOCK \in Reqs \cup {NoReq}
  /\ started \in 0..NumReq
  /\ \A r \in Reqs : pc[r] \in {"idle", "lock", "ensure", "ens_open", "ens_close",
                                "load", "handle", "save_close", "release", "done"}

\* ------------------------------------------------------------- properties
Done(r) == pc[r] = "done"
Succeeded(r) == Done(r) /\ res[r].status \in {200, 201, 204}
CreateReqs == {r \in Reqs : op[r].kind = "create"}
CreatesReturned == \A r \in CreateReqs : Done(r)
Distinct(s) == \A i, j \in 1..Len(s) : i # j => s[i] # s[j]
ItemIds(items) == {items[i].id : i \in 1..Len(items)}
\* identifiers some record may have had: those of the records of the initial
\* file and those create has assigned
EverIds ==
  {i \in 1..MaxId : i < c0}
    \cup {res[r].body[1].id : r \in {q \in CreateReqs : res[q].status = 201}}

\* C1: in every interleaving of create, update, delete, list and get, with or
\* without a data file at the start, no two create calls return the same
\* identifier.
C1_CreateIdsDistinct == Distinct(issued)

C3_ReadersLoadComplete ==
  \A r \in Reqs : Done(r) /\ op[r].kind \in {"list", "get"} => res[r].status # 500

\* C4: a missing data file is initialised at most once, and the initialising
\* write never replaces a file that is already there.
C4_InitialisedOnce ==
  /\ Cardinality({r \in Reqs : ens[r] # "no"}) <= 1
  /\ \A r \in Reqs : ens[r] # "overwrote"

\* C5: in every complete persisted state no two records of the collection
\* have the same identifier.
C5_PersistedIdsUnique == file.valid => Distinct([i \in 1..Len(file.data.items) |-> file.data.items[i].id])

\* two records are persisted after a create and a successful update
C5_Witness ==
  /\ file.valid /\ Len(file.data.items) >= 2
  /\ \E r \in Reqs : op[r].kind = "update" /\ Succeeded(r)

\* C6: the persisted next_id never decreases and is greater than every
\* identifier create has returned.
C6_CounterMonotone ==
  file.valid =>
    /\ file.data.next_id >= hwm
    /\ \A k \in 1..Len(issued) : issued[k] < file.data.next_id

\* C7: a get(i) received after create returned i, with no update or delete
\* of i since, returns the record with id i and the fields given to create.
C7_GetAfterCreate ==
  \A r \in Reqs :
    Done(r) /\ op[r].kind = "get" /\ expect[r].src = "create"
      => res[r] = Ok(200, <<Rec(op[r].id, expect[r].fields)>>)

\* C8: a get(i) received after update(i, X) succeeded, with no update or
\* delete of i since, returns the record with id i and the fields X.
C8_GetAfterUpdate ==
  \A r \in Reqs :
    Done(r) /\ op[r].kind = "get" /\ expect[r].src = "update"
      => res[r] = Ok(200, <<Rec(op[r].id, expect[r].fields)>>)

\* C9: after delete(i) succeeded, every get(i) received later fails with
\* NotFound and every list received later returns no record with id i.
C9_GoneAfterDelete ==
  \A r \in Reqs :
    /\ Done(r) /\ op[r].kind = "get" /\ op[r].id \in delAt[r] => res[r] = NotFound
    /\ Done(r) /\ op[r].kind = "list" => ItemIds(res[r].body) \cap delAt[r] = {}

\* C10: get, update and delete of an identifier no record ever had fail with
\* NotFound, and the failing request has not written over the data file.
C10_AbsentIdNotFound ==
  \A r \in Reqs :
    Done(r) /\ op[r].kind \in {"get", "update", "delete"} /\ op[r].id \notin EverIds
      => res[r] = NotFound /\ ens[r] # "overwrote"

Sent(h) == http[h].stage = "sent"

\* C11: a request to a path that starts with /admin/ whose X-API-Key is
\* missing or differs from the secret never goes past admin_guard, reaches no
\* route handler and is answered 401, whether a route exists or not; a GET of
\* /admin/secret with the matching key is answered 200.
C11_AdminGuard ==
  \A h \in HttpReqs :
    /\ /\ http[h].stage # "idle"
       /\ StartsWith(http[h].path, PAdminSlash)
       /\ (http[h].key = NoHeader \/ http[h].key # API_KEY)
       => /\ http[h].stage \in {"admin_guard", "sent"}
          /\ ~http[h].reached
          /\ Sent(h) => http[h].status = 401
    /\ Sent(h) /\ http[h].path = PSecret /\ http[h].key = API_KEY
       => http[h].status = 200 /\ http[h].reached

\* a request without the header to a path under /admin/ that has no route
\* was answered 401
C11_Witness ==
  \E h \in HttpReqs :
    /\ Sent(h) /\ http[h].path = PAdminOther /\ http[h].key = NoHeader
    /\ http[h].status = 401 /\ ~http[h].reached

\* C12: every response sent carries the X-Process-Time header, the 401 of
\* admin_guard and the 404/422 error responses included.
C12_EveryResponseTimed == \A h \in HttpReqs : Sent(h) => http[h].timed

Increasing(items) ==
  \A i, j \in 1..Len(items) : i < j => items[i].id < items[j].id
Holding(r) == pc[r] \in {"ensure", "ens_open", "ens_close", "load", "handle",
                         "save_close", "release"}

\* C13: a list received after a sequence of create, update and delete
\* operations (at least one create) has completed, with none running
\* meanwhile, returns exactly the created and not deleted records, in the
\* order of their creation (increasing identifier).
C13_ListReturnsLiveRecords ==
  \A r \in Reqs :
    Done(r) /\ op[r].kind = "list" /\ quiet[r] /\ issued # <<>>
      => res[r] = Ok(200, serial.items) /\ Increasing(res[r].body)

\* C14: LOCK is released on every exit path of create, update and delete:
\* only a request inside "with LOCK:" holds it, and once the request has
\* returned or raised NotFound it does not.
C14_LockReleased ==
  \A r \in Reqs :
    /\ LOCK = r => op[r].kind \in Mutating /\ Holding(r)
    /\ Done(r) => LOCK # r

\* an update or delete has raised NotFound and another request holds LOCK
C14_Witness ==
  \E r, q \in Reqs :
    /\ Done(r) /\ op[r].kind \in {"update", "delete"} /\ res[r] = NotFound
    /\ q # r /\ LOCK = q

\* C15: under fair scheduling of the request threads and fair hand-over of
\* LOCK every request received eventually completes, and in no reachable
\* state are there unfinished requests none of which can take a step.
C15_EveryRequestCompletes ==
  /\ \A r \in Reqs : (pc[r] # "idle") ~> Done(r)
  /\ [](\A r \in Reqs :
          pc[r] \notin {"idle", "done"}
            => \E q \in Reqs : ENABLED (Proceed(q) \/ acquire_LOCK(q)))

\* a request waits for LOCK while another holds it
C15_Witness ==
  \E r, q \in Reqs : r # q /\ pc[r] = "lock" /\ LOCK = q

\* C16: at most one create/update/delete is between its load_db and its
\* save_db, and once the mutating operations received have completed the
\* persisted state is the result of applying them (those that were answered
\* rather than aborted) one at a time in the order in which they held LOCK.
C16_SerialMutations ==
  /\ Cardinality({r \in Reqs : op[r].kind \in Mutating
                               /\ pc[r] \in {"load", "handle", "save_close"}}) <= 1
  /\ (\E r \in Reqs : op[r].kind \in Mutating) /\ ~MutationRunning
       => file.valid /\ file.data = serial

\* C17: a successful delete(i) removes the record i and nothing else: the
\* other records keep their fields and their order, next_id is unchanged, and
\* that collection is what save_db persists.
C17_DeleteRemovesOne ==
  [][\A r \in Reqs :
       /\ pc[r] = "handle" /\ op[r].kind = "delete" /\ pc'[r] = "save_close"
          => LET Other(x) == x.id # op[r].id IN
               /\ db'[r].items = SelectSeq(db[r].items, Other)
               /\ Len(db'[r].items) = Len(db[r].items) - 1
               /\ db'[r].next_id = db[r].next_id
       /\ pc[r] = "save_close" /\ op[r].kind = "delete" /\ pc'[r] = "release"
          => file'.valid /\ file'.data = db[r]]_vars

\* record A with id 1, create B gets id 2, delete(1), and a later list is
\* exactly [B with id 2]
C17_Witness ==
  \E r \in Reqs :
    /\ Done(r) /\ op[r].kind = "list" /\ 1 \in delAt[r]
    /\ res[r] = Ok(200, <<Rec(2, FB)>>)

\* C18: a list or get that is received when the data file exists performs no
\* write of the file.
C18_ReadersDoNotWrite ==
  \A r \in Reqs :
    op[r].kind \in {"list", "get"} /\ present[r]
      => ens[r] = "no" /\ pc[r] \notin {"ens_open", "ens_close"}

\* a list or get received after the file was created in this run has answered
C18_Witness ==
  \E r \in Reqs :
    /\ c0 = 0 /\ Done(r) /\ op[r].kind \in {"list", "get"} /\ present[r]
    /\ res[r].status = 200

\* C19: a successful update(i, X) replaces the record i in place: the
\* position of the record, the other records, the number of records and
\* next_id are unchanged, and that collection is what save_db persists.
C19_UpdateReplacesOne ==
  [][\A r \in Reqs :
       /\ pc[r] = "handle" /\ op[r].kind = "update" /\ pc'[r] = "save_close"
          => LET i == IndexOf(db[r].items, op[r].id) IN
               /\ Len(db'[r].items) = Len(db[r].items)
               /\ db'[r].items[i] = Rec(op[r].id, op[r].fields)
               /\ \A j \in 1..Len(db[r].items) :
                    j # i => db'[r].items[j] = db[r].items[j]
               /\ db'[r].next_id = db[r].next_id
       /\ pc[r] = "save_close" /\ op[r].kind = "update" /\ pc'[r] = "release"
          => file'.valid /\ file'.data = db[r]]_vars

\* record 1 of a collection of two was updated to B and is still the first
C19_Witness ==
  \E r \in Reqs :
    /\ Succeeded(r) /\ op[r].kind = "update" /\ op[r].id = 1 /\ op[r].fields = FB
    /\ file.valid /\ Len(file.data.items) = 2
    /\ file.data.items[1] = Rec(1, FB)
====
